---- MODULE Spec2Model ----
(***************************************************************************)
(* Remote Docker fleet controller (fast-docker): the Host/Stack registry  *)
(* of main.py over SQLite, the backend selection of DockerManager and the *)
(* Compose facade ComposeManager.                                         *)
(*                                                                         *)
(* Strings that the code takes apart (paths, command output) are          *)
(* sequences of one-character strings; Python's None is the value NULL;   *)
(* an id of None (not yet assigned) is NoId.                              *)
(*                                                                         *)
(* A request is a frame in req[r]: the handler's local variables, the     *)
(* fields of the DockerManager / ComposeManager / DockerCompose objects   *)
(* it built, and its position.  A handler runs up to its first remote     *)
(* interaction in one step (its database work is one transaction).        *)
(*                                                                         *)
(* Outside the repository, modelled by their contract as the code uses    *)
(* it: SQLite/SQLModel (rowid assignment, no foreign-key enforcement),    *)
(* fabric (Connection is lazy, run/sudo raise on any failure), docker     *)
(* (DockerClient), docker_composer_v2 (a verb hands one command to the    *)
(* run_command callback it was constructed with).  The mapping of         *)
(* models.py is taken to configure, so that the handlers run as written.  *)
(***************************************************************************)
EXTENDS Integers, Sequences, FiniteSets, TLC

VARIABLES hosts, stacks, req

vars == <<hosts, stacks, req>>

\* ------------------------------------------------------------------ bounds
MaxHostId == 2
MaxStackId == 1
MaxOut == 3

\* ------------------------------------------------------------------ values
NULL == "<None>"
NoId == 0
DefaultSshPort == 22

Max(S) == CHOOSE x \in S : \A y \in S : y <= x

\* Python truthiness of an Optional[str]: None and "" are falsy.
Truthy(v) == v # NULL /\ v # ""

\* "/opt/app/docker-compose.yml"
ExamplePath ==
    <<"/", "o", "p", "t", "/", "a", "p", "p", "/", "d", "o", "c", "k", "e", "r",
      "-", "c", "o", "m", "p", "o", "s", "e", ".", "y", "m", "l">>
\* "/opt/app"
ExampleDir == <<"/", "o", "p", "t", "/", "a", "p", "p">>

\* ------------------------------------------------------------------ models.py
Host(id, name, host, connection_type, docker_url, ssh_user, ssh_key_filename, ssh_port, sudo_user, sudo_password) ==
    [id |-> id, name |-> name, host |-> host, connection_type |-> connection_type,
     docker_url |-> docker_url, ssh_user |-> ssh_user,
     ssh_key_filename |-> ssh_key_filename, ssh_port |-> ssh_port,
     sudo_user |-> sudo_user, sudo_password |-> sudo_password]

Stack(id, name, compose_file, host_id) ==
    [id |-> id, name |-> name, compose_file |-> compose_file, host_id |-> host_id]

\* The handler's `host` when session.get found no row.
NoHost == Host(NoId, NULL, NULL, NULL, NULL, NULL, NULL, DefaultSshPort, NULL, NULL)
NoStack == Stack(NoId, NULL, <<>>, NoId)

\* Host records a client submits (the parsed request body).
ApiHost(url) ==
    Host(NoId, "api", "10.0.0.1", "docker", url, NULL, NULL, DefaultSshPort, NULL, NULL)
SshHost(sudo_user, sudo_password) ==
    Host(NoId, "box", "10.0.0.2", "ssh", NULL, "deploy", "/k", 2222,
         sudo_user, sudo_password)

\* Every kind of host record: the API kind with and without a URL, the SSH
\* kind with each combination of sudo identity and sudo secret, and a kind
\* that is neither.
AllHostInputs ==
    { ApiHost("tcp://1.2.3.4:2375"), ApiHost(NULL), ApiHost(""),
      SshHost(NULL, NULL), SshHost("root", "pw"), SshHost("root", NULL),
      SshHost(NULL, "pw"), SshHost("", "pw"),
      [SshHost(NULL, NULL) EXCEPT !.connection_type = "podman"] }

\* The records registered and deleted in Spec.
HostInputs == { ApiHost("tcp://1.2.3.4:2375"), ApiHost(NULL), ApiHost(""), SshHost(NULL, NULL), SshHost("root", "pw") }

ComposeFiles == { ExamplePath, <<"/", "c">>, <<"c">>, <<>> }

AllStackInputs == { Stack(NoId, "app", p, NoId) : p \in ComposeFiles }

StackInputs == { Stack(NoId, "app", ExamplePath, NoId) }

\* ------------------------------------------------------------------ storage
\* SQLite INTEGER PRIMARY KEY without AUTOINCREMENT: a row inserted with no
\* id gets the largest id in the table plus one.
NextRowId(table) == IF DOMAIN table = {} THEN 1 ELSE Max(DOMAIN table) + 1

Insert(table, row) == [i \in DOMAIN table \cup {row.id} |-> IF i = row.id THEN row ELSE table[i]]

Delete(table, id) == [i \in DOMAIN table \ {id} |-> table[i]]

\* session.get(Host, id): the row, or None.
GetHost(id) == IF id \in DOMAIN hosts THEN hosts[id] ELSE NoHost
GetStack(id) == IF id \in DOMAIN stacks THEN stacks[id] ELSE NoStack

\* ------------------------------------------------------------------ responses
\* What the HTTP boundary sends for a handler's outcome.  An HTTPException
\* carries its own status; any other exception leaving a handler is
\* FastAPI's generic 500.  body is <<the returned value>>, or <<>> for none.
Ok(body) == [status |-> 200, error |-> "none", detail |-> <<>>, body |-> <<body>>]

HTTPException(status, detail) == [status |-> status, error |-> "HTTPException", detail |-> detail, body |-> <<>>]

Unhandled(exc) == [status |-> 500, error |-> exc, detail |-> <<"Internal Server Error">>, body |-> <<>>]

NoOut == [status |-> 0, error |-> "none", detail |-> <<>>, body |-> <<>>]

\* ------------------------------------------------------------------ frames
NoCmd == [prog |-> NULL, verb |-> NULL, arg |-> NULL, cwd |-> <<>>, file |-> <<>>]
NoIssue == [mode |-> "none", user |-> NULL, password |-> NULL]

\* A request slot with no request in it.  Beside the handler's locals a frame
\* records what the collaborators saw: how often run_ssh_command was entered
\* (sshCalls), how often conn.run / conn.sudo was invoked (remoteRuns), the
\* DockerClients built (clients) and the daemon calls made (daemonCalls), the
\* remote command's raw standard output and the text of the exception raised
\* inside run_ssh_command, and how run_ssh_command ended (ssh).
Idle ==
    [pc |-> "idle", op |-> "none", arg |-> NULL, host |-> NoHost, stack |-> NoStack,
     cmd |-> NoCmd, issued |-> NoIssue, conn |-> 0, client |-> 0,
     guardPassed |-> FALSE, sshCalls |-> 0, remoteRuns |-> 0, clients |-> 0,
     daemonCalls |-> 0, stdout |-> <<>>, failure |-> NULL, ssh |-> NoOut, out |-> NoOut]

\* The handler returned or raised: its locals (and every object only they
\* referenced) are gone; the counters of what it did stay for the response.
Done(f, out) == [f EXCEPT !.pc = "done", !.conn = 0, !.client = 0, !.out = out]

\* A handle kept in a pool and handed out again: the one already live.
SharedHandle == Max({req[r].conn : r \in DOMAIN req} \cup {req[r].client : r \in DOMAIN req} \cup {1})

\* Object identity: a newly constructed Connection or DockerClient is an
\* object distinct from every object still referenced by a frame.
LiveHandles == {req[r].conn : r \in DOMAIN req} \cup {req[r].client : r \in DOMAIN req}

NewHandle == CHOOSE h \in 1..(2 * Cardinality(DOMAIN req) + 1) : h \notin LiveHandles /\ \A g \in 1..(h - 1) : g \in LiveHandles

\* ------------------------------------------------------------------ str
\* s.rsplit(sep, 1)[0]: everything before the last sep, or all of s when
\* s holds no sep.
LastIndexOf(s, c) == IF \E i \in 1..Len(s) : s[i] = c THEN Max({i \in 1..Len(s) : s[i] = c}) ELSE 0

rsplit_head(s, c) == IF LastIndexOf(s, c) = 0 THEN s ELSE SubSeq(s, 1, LastIndexOf(s, c) - 1)

IsSpace(c) == c = " "

RECURSIVE lstrip(_)
lstrip(s) == IF s # <<>> /\ IsSpace(Head(s)) THEN lstrip(Tail(s)) ELSE s

RECURSIVE rstrip(_)
rstrip(s) == IF s # <<>> /\ IsSpace(s[Len(s)]) THEN rstrip(SubSeq(s, 1, Len(s) - 1)) ELSE s

\* str.strip()
strip(s) == rstrip(lstrip(s))

\* output.splitlines() of a text without line breaks
splitlines(s) == IF s = <<>> THEN <<>> ELSE <<s>>

\* json.loads accepts a line of digits (a JSON number) and raises on a
\* line with a blank inside it.
json_ok(line) == line # <<>> /\ \A i \in 1..Len(line) : line[i] = "1"

\* ------------------------------------------------------------------ docker_manager.py
\* What the environment may answer.
BuildResults == {"ok", "ValueError"}
ConnectResults == {"ok", "connect failed", "auth failed"}
ExitTexts == {"exit 1"}
ApiResults == {"ok", "NotFound", "APIError"}
Chars == {" ", "1"}
Outputs == UNION {[1..n -> Chars] : n \in 0..MaxOut}
ContainerIds == {"web"}

\* The detail without the text of the exception.
SshFailedNoText(text) == HTTPException(500, <<"SSH command failed">>)

\* HTTPException(status_code=500, detail=f"SSH command failed: {str(e)}")
SshFailed(text) == HTTPException(500, <<"SSH command failed: ", text>>)

\* A failed attempt started over once instead of raised.
except_Retry(f, e) ==
    IF f.sshCalls < 2
    THEN [f EXCEPT !.pc = "ssh_ready", !.sshCalls = @ + 1, !.conn = 1]
    ELSE Done([f EXCEPT !.failure = e, !.ssh = HTTPException(500, <<"SSH command failed: ", e>>)], HTTPException(500, <<"SSH command failed: ", e>>))

\* except Exception as e: whatever was raised in the try block leaves
\* run_ssh_command as that HTTPException, and the handler with it.
except_Exception(f, e) == Done([f EXCEPT !.failure = e, !.ssh = SshFailed(e)], SshFailed(e))

\* The client built without looking at docker_url.
get_docker_client_unchecked(f, built) ==
    IF f.host.connection_type = "docker"
    THEN [f EXCEPT !.pc = "api_ready", !.client = 1, !.clients = @ + 1]
    ELSE f

\* DockerManager.get_docker_client.  `built` is whether docker.DockerClient
\* could be constructed from the URL.  Returning None leaves the frame
\* without a client.
get_docker_client(f, built) ==
    IF f.host.connection_type = "docker"
    THEN IF ~Truthy(f.host.docker_url)
         THEN Done(f, HTTPException(400, <<"Missing docker_url">>))
         ELSE IF built = "ok"
              THEN [f EXCEPT !.pc = "api_ready", !.client = NewHandle, !.clients = @ + 1]
              ELSE Done(f, Unhandled("DockerException"))
    ELSE f

\* DockerManager.run_ssh_command up to the Connection object: the Config and
\* the (lazy) Connection are built inside the try block.
run_ssh_command(f, cmd, built) ==
    LET g == [f EXCEPT !.sshCalls = @ + 1, !.cmd = cmd]
    IN IF f.host = NoHost
       THEN except_Exception(g, "AttributeError")
       ELSE IF built = "ok"
            THEN [g EXCEPT !.pc = "ssh_ready", !.conn = NewHandle]
            ELSE except_Exception(g, built)

\* Elevation chosen by the sudo secret instead of the sudo identity.
IssueByPassword(host) ==
    [mode |-> IF Truthy(host.sudo_password) THEN "sudo" ELSE "run",
     user |-> IF Truthy(host.sudo_password) THEN host.sudo_user ELSE host.ssh_user,
     password |-> IF Truthy(host.sudo_password) THEN host.sudo_password ELSE NULL]

\* conn.sudo(cmd, user=sudo_user, hide=True) or conn.run(cmd, hide=True).
Issue(host) ==
    [mode |-> IF Truthy(host.sudo_user) THEN "sudo" ELSE "run",
     user |-> IF Truthy(host.sudo_user) THEN host.sudo_user ELSE host.ssh_user,
     password |-> IF Truthy(host.sudo_password) THEN host.sudo_password ELSE NULL]

\* What the caller of run_ssh_command does with the text it returns.
Continue(f, text) ==
    CASE f.op = "list_containers" ->
           IF \A i \in 1..Len(splitlines(text)) : json_ok(splitlines(text)[i])
           THEN Done(f, Ok(splitlines(text)))
           ELSE Done(f, Unhandled("JSONDecodeError"))
      [] f.op = "start_container" -> Done(f, Ok(<<"Started container ", f.arg>>))
      [] OTHER -> Done(f, Ok(text))

\* A per-stack lock: the command waits while another request's command on
\* the same stack is at the remote shell.
ssh_open_locked(r, res) ==
    /\ req[r].pc = "ssh_ready"
    /\ \A q \in DOMAIN req \ {r} : ~(req[q].pc = "ssh_running" /\ req[q].stack = req[r].stack)
    /\ LET g == [req[r] EXCEPT !.remoteRuns = @ + 1, !.issued = Issue(req[r].host)]
       IN req' = [req EXCEPT ![r] = IF res = "ok" THEN [g EXCEPT !.pc = "ssh_running"]
                                    ELSE except_Exception(g, res)]
    /\ UNCHANGED <<hosts, stacks>>

\* The session is opened and the command handed to the remote shell.
ssh_open(r, res) ==
    /\ req[r].pc = "ssh_ready"
    /\ LET g == [req[r] EXCEPT !.remoteRuns = @ + 1, !.issued = Issue(req[r].host)]
       IN req' = [req EXCEPT ![r] = IF res = "ok" THEN [g EXCEPT !.pc = "ssh_running"]
                                    ELSE except_Exception(g, res)]
    /\ UNCHANGED <<hosts, stacks>>

\* The remote command ends: result.stdout.strip() is returned, or the
\* non-zero exit raises inside the try block.
ssh_exit(r, code, stdout, text) ==
    /\ req[r].pc = "ssh_running"
    /\ req' = [req EXCEPT ![r] =
         IF code = 0
         THEN Continue([req[r] EXCEPT !.stdout = stdout, !.ssh = Ok(strip(stdout))], strip(stdout))
         ELSE except_Exception([req[r] EXCEPT !.stdout = stdout], text)]
    /\ UNCHANGED <<hosts, stacks>>

\* The daemon answers the calls made through the client.
api_call(r, res) ==
    /\ req[r].pc = "api_ready"
    /\ req' = [req EXCEPT ![r] =
         CASE req[r].op = "list_containers" ->
                IF res = "ok"
                THEN Done([req[r] EXCEPT !.daemonCalls = @ + 1], Ok(<<>>))
                ELSE Done([req[r] EXCEPT !.daemonCalls = @ + 1], Unhandled(res))
           [] OTHER ->
                IF res = "ok"
                THEN Done([req[r] EXCEPT !.daemonCalls = @ + 2], Ok(<<"Started container ", req[r].arg>>))
                ELSE IF res = "NotFound"
                     THEN Done([req[r] EXCEPT !.daemonCalls = @ + 1], Unhandled(res))
                     ELSE Done([req[r] EXCEPT !.daemonCalls = @ + 2], Unhandled(res))]
    /\ UNCHANGED <<hosts, stacks>>

\* ------------------------------------------------------------------ compose_manager.py
\* ComposeManager.__init__
ComposeManager(f, stack, host) == [f EXCEPT !.stack = stack, !.host = host]

DockerCompose(working_dir, filename) == [working_dir |-> working_dir, filename |-> filename]

\* The command docker_composer_v2 hands to run_command for a verb.
ComposeCmd(compose, verb, arg) == [prog |-> "docker compose", verb |-> verb, arg |-> arg, cwd |-> compose.working_dir, file |-> compose.filename]

\* The DockerCompose built whatever the host's connection type.
_get_compose_unguarded(f) ==
    IF f.host = NoHost
    THEN [raised |-> Unhandled("AttributeError"), compose |-> DockerCompose(<<>>, <<>>)]
    ELSE [raised |-> NoOut, compose |-> DockerCompose(rsplit_head(f.stack.compose_file, "/"), f.stack.compose_file)]

\* ComposeManager._get_compose: what it raises (NoOut: nothing) and the
\* DockerCompose it returns.
_get_compose(f) ==
    IF f.host = NoHost
    THEN [raised |-> Unhandled("AttributeError"), compose |-> DockerCompose(<<>>, <<>>)]
    ELSE IF f.host.connection_type = "docker"
         THEN [raised |-> HTTPException(400, <<"Docker Compose operations require SSH access">>), compose |-> DockerCompose(<<>>, <<>>)]
         ELSE [raised |-> NoOut, compose |-> DockerCompose(rsplit_head(f.stack.compose_file, "/"), f.stack.compose_file)]

Verb(f, verb, arg, built) ==
    IF _get_compose(f).raised # NoOut
    THEN Done(f, _get_compose(f).raised)
    ELSE run_ssh_command([f EXCEPT !.guardPassed = TRUE], ComposeCmd(_get_compose(f).compose, verb, arg), built)

up(f, built) == Verb(f, "up", "--detach", built)

\* The two statements after the first return of down() never run.
down(f, built) == Verb(f, "down", NULL, built)

ps(f, built) == Verb(f, "ps", NULL, built)

restart(f, built) == Verb(f, "restart", NULL, built)

\* ------------------------------------------------------------------ main.py
HostIds == 1..(MaxHostId + 1)
StackIds == 1..(MaxStackId + 1)

\* Request bodies: any id and (for a stack) any host_id may be written in.
HostBodies == {[h EXCEPT !.id = i] : h \in HostInputs, i \in 0..MaxHostId}
StackBodies == {[s EXCEPT !.host_id = i] : s \in StackInputs, i \in 0..MaxHostId}

Begin(op, arg) == [Idle EXCEPT !.op = op, !.arg = arg]

\* host = session.get(Host, host_id)
Lookup(op, arg, host_id) == [Begin(op, arg) EXCEPT !.host = GetHost(host_id)]

\* The row stored with the column default for the port.
HostRowDefaultPort(host, id) == [host EXCEPT !.id = id, !.ssh_port = DefaultSshPort]

\* The row as stored and read back by session.refresh.
HostRow(host, id) == [host EXCEPT !.id = id]

StackRow(stack, id, host_id) == [stack EXCEPT !.id = id, !.host_id = host_id]

\* POST /hosts
add_host(r, host) ==
    LET id == IF host.id = NoId THEN NextRowId(hosts) ELSE host.id
    IN /\ req[r].pc = "idle"
       /\ id <= MaxHostId
       /\ IF id \in DOMAIN hosts
          THEN /\ req' = [req EXCEPT ![r] = Done(Begin("add_host", host), Unhandled("IntegrityError"))]
               /\ UNCHANGED hosts
          ELSE /\ hosts' = Insert(hosts, HostRow(host, id))
               /\ req' = [req EXCEPT ![r] = Done(Begin("add_host", host), Ok(hosts'[id]))]
       /\ UNCHANGED stacks

\* GET /hosts
list_hosts(r) ==
    /\ req[r].pc = "idle"
    /\ req' = [req EXCEPT ![r] = Done(Begin("list_hosts", NULL), Ok({hosts[i] : i \in DOMAIN hosts}))]
    /\ UNCHANGED <<hosts, stacks>>

\* GET /hosts/{host_id}
get_host_out(host_id) ==
    IF GetHost(host_id) = NoHost
    THEN HTTPException(404, <<"Host not found">>)
    ELSE Ok(GetHost(host_id))

get_host(r, host_id) ==
    /\ req[r].pc = "idle"
    /\ req' = [req EXCEPT ![r] = Done(Lookup("get_host", host_id, host_id), get_host_out(host_id))]
    /\ UNCHANGED <<hosts, stacks>>

\* DELETE /hosts/{host_id}: the host row goes; no stack row is touched
\* (the engine enforces no foreign key).
delete_host(r, host_id) ==
    /\ req[r].pc = "idle"
    /\ IF GetHost(host_id) = NoHost
       THEN /\ req' = [req EXCEPT ![r] = Done(Lookup("delete_host", host_id, host_id), HTTPException(404, <<"Host not found">>))]
            /\ UNCHANGED hosts
       ELSE /\ hosts' = Delete(hosts, host_id)
            /\ req' = [req EXCEPT ![r] = Done(Lookup("delete_host", host_id, host_id), Ok(<<"Host deleted">>))]
    /\ UNCHANGED stacks

DockerPs == [prog |-> "docker", verb |-> "ps -a --format '{{json .}}'", arg |-> NULL, cwd |-> <<>>, file |-> <<>>]

DockerStart(container_id) == [prog |-> "docker", verb |-> "start", arg |-> container_id, cwd |-> <<>>, file |-> <<>>]

\* The branch on host.connection_type of both container handlers; host is
\* None when the id names no row.
\* A three-way selection: a kind that is neither "docker" nor "ssh" is
\* turned away.
Containers_strict(f, cmd, built) ==
    IF f.host = NoHost
    THEN Done(f, Unhandled("AttributeError"))
    ELSE IF f.host.connection_type = "docker"
         THEN get_docker_client(f, built)
         ELSE IF f.host.connection_type = "ssh"
              THEN run_ssh_command(f, cmd, built)
              ELSE Done(f, HTTPException(400, <<"Unknown connection_type">>))

Containers(f, cmd, built) ==
    IF f.host = NoHost
    THEN Done(f, Unhandled("AttributeError"))
    ELSE IF f.host.connection_type = "docker"
         THEN get_docker_client(f, built)
         ELSE run_ssh_command(f, cmd, built)

\* GET /hosts/{host_id}/containers
list_containers(r, host_id, built) ==
    /\ req[r].pc = "idle"
    /\ req' = [req EXCEPT ![r] = Containers(Lookup("list_containers", host_id, host_id), DockerPs, built)]
    /\ UNCHANGED <<hosts, stacks>>

\* POST /hosts/{host_id}/containers/start/{container_id}
start_container(r, host_id, container_id, built) ==
    /\ req[r].pc = "idle"
    /\ req' = [req EXCEPT ![r] = Containers(Lookup("start_container", container_id, host_id), DockerStart(container_id), built)]
    /\ UNCHANGED <<hosts, stacks>>

\* POST /hosts/{host_id}/stacks
create_stack(r, host_id, stack) ==
    LET id == IF stack.id = NoId THEN NextRowId(stacks) ELSE stack.id
    IN /\ req[r].pc = "idle"
       /\ id <= MaxStackId
       /\ IF GetHost(host_id) = NoHost
          THEN /\ req' = [req EXCEPT ![r] = Done(Lookup("create_stack", stack, host_id), HTTPException(404, <<"Host not found">>))]
               /\ UNCHANGED stacks
          ELSE /\ stacks' = Insert(stacks, StackRow(stack, id, host_id))
               /\ req' = [req EXCEPT ![r] = Done(Lookup("create_stack", stack, host_id), Ok(stacks'[id]))]
       /\ UNCHANGED hosts

\* GET /hosts/{host_id}/stacks
list_stacks(r, host_id) ==
    /\ req[r].pc = "idle"
    /\ req' = [req EXCEPT ![r] = Done(Begin("list_stacks", host_id), Ok({stacks[i] : i \in {j \in DOMAIN stacks : stacks[j].host_id = host_id}}))]
    /\ UNCHANGED <<hosts, stacks>>

\* The lookups shared by the three stack routes.
StackRoute(op, stack_id) == ComposeManager(Begin(op, stack_id), GetStack(stack_id), GetHost(GetStack(stack_id).host_id))

StackNotFound(op, stack_id) == Done(Begin(op, stack_id), HTTPException(404, <<"Stack not found">>))

\* POST /stacks/{stack_id}/up
stack_up(r, stack_id, built) ==
    /\ req[r].pc = "idle"
    /\ req' = [req EXCEPT ![r] =
         IF GetStack(stack_id) = NoStack THEN StackNotFound("stack_up", stack_id)
         ELSE up(StackRoute("stack_up", stack_id), built)]
    /\ UNCHANGED <<hosts, stacks>>

\* POST /stacks/{stack_id}/down
stack_down(r, stack_id, built) ==
    /\ req[r].pc = "idle"
    /\ req' = [req EXCEPT ![r] =
         IF GetStack(stack_id) = NoStack THEN StackNotFound("stack_down", stack_id)
         ELSE down(StackRoute("stack_down", stack_id), built)]
    /\ UNCHANGED <<hosts, stacks>>

\* GET /stacks/{stack_id}/ps
stack_ps(r, stack_id, built) ==
    /\ req[r].pc = "idle"
    /\ req' = [req EXCEPT ![r] =
         IF GetStack(stack_id) = NoStack THEN StackNotFound("stack_ps", stack_id)
         ELSE ps(StackRoute("stack_ps", stack_id), built)]
    /\ UNCHANGED <<hosts, stacks>>

\* ComposeManager(stack, host).restart(): main.py has no route for it; the
\* facade is used as its module documents, on a loaded Stack.
facade_restart(r, stack_id, built) ==
    /\ req[r].pc = "idle"
    /\ stack_id \in DOMAIN stacks
    /\ req' = [req EXCEPT ![r] = restart(StackRoute("restart", stack_id), built)]
    /\ UNCHANGED <<hosts, stacks>>

\* The response is sent; the slot is free for the next request.
respond(r) ==
    /\ req[r].pc = "done"
    /\ req' = [req EXCEPT ![r] = Idle]
    /\ UNCHANGED <<hosts, stacks>>

\* ------------------------------------------------------------------ specifications
\* Requests are handled one at a time in Spec and two at a time in SpecConc.
Slots == {"r1"}
ConcSlots == {"r1", "r2"}

Init ==
    /\ hosts = <<>>
    /\ stacks = <<>>
    /\ req = [r \in Slots |-> Idle]

Remote(r) ==
    \/ \E res \in ConnectResults : ssh_open(r, res)
    \/ \E out \in Outputs : ssh_exit(r, 0, out, "")
    \/ \E out \in Outputs, text \in ExitTexts : ssh_exit(r, 1, out, text)
    \/ \E res \in ApiResults : api_call(r, res)
    \/ respond(r)

Operate(r) ==
    \/ \E id \in HostIds, built \in BuildResults : list_containers(r, id, built)
    \/ \E id \in HostIds, c \in ContainerIds, built \in BuildResults : start_container(r, id, c, built)
    \/ \E id \in StackIds, built \in BuildResults : stack_up(r, id, built)
    \/ \E id \in StackIds, built \in BuildResults : stack_down(r, id, built)
    \/ \E id \in StackIds, built \in BuildResults : stack_ps(r, id, built)
    \/ \E id \in StackIds, built \in BuildResults : facade_restart(r, id, built)

Register(r) ==
    \/ \E h \in HostBodies : add_host(r, h)
    \/ list_hosts(r)
    \/ \E id \in HostIds : get_host(r, id)
    \/ \E id \in HostIds : delete_host(r, id)
    \/ \E id \in HostIds, s \in StackBodies : create_stack(r, id, s)
    \/ \E id \in HostIds : list_stacks(r, id)

Next == \E r \in Slots : Register(r) \/ Operate(r) \/ Remote(r)

Spec == Init /\ [][Next]_vars

\* One registered host of any kind with one stack, bound to it or to a
\* host that is gone; only container and Compose requests follow.
InitOps ==
    /\ \E h \in AllHostInputs : hosts = <<HostRow(h, 1)>>
    /\ \E s \in AllStackInputs, host_id \in 1..2 : stacks = <<StackRow(s, 1, host_id)>>
    /\ req = [r \in Slots |-> Idle]

NextOps == \E r \in Slots : Operate(r) \/ Remote(r)

SpecOps == InitOps /\ [][NextOps]_vars

InitConc ==
    /\ \E h \in HostInputs : hosts = <<HostRow(h, 1)>>
    /\ \E s \in StackInputs : stacks = <<StackRow(s, 1, 1)>>
    /\ req = [r \in ConcSlots |-> Idle]

NextConc == \E r \in ConcSlots : Operate(r) \/ Remote(r)

SpecConc == InitConc /\ [][NextConc]_vars

\* ------------------------------------------------------------------ claims
ComposeOps == {"stack_up", "stack_down", "stack_ps", "restart"}
ContainerOps == {"list_containers", "start_container"}
Unsupported == HTTPException(400, <<"Docker Compose operations require SSH access">>)
MissingUrl == HTTPException(400, <<"Missing docker_url">>)

\* C1: a Compose verb (up, down, ps, restart) on a stack whose host has
\* connection type "docker" has failed with the 400 of the backend guard,
\* with no SSH session built or opened, no command built or issued, no
\* client built and no daemon call made for that request.
C1_ApiHostComposeRejected ==
    \A r \in DOMAIN req :
        (req[r].op \in ComposeOps /\ req[r].host.connection_type = "docker")
        => /\ req[r].pc = "done"
           /\ req[r].out = Unsupported
           /\ ~req[r].guardPassed
           /\ req[r].sshCalls = 0 /\ req[r].remoteRuns = 0
           /\ req[r].clients = 0 /\ req[r].daemonCalls = 0
           /\ req[r].cmd = NoCmd /\ req[r].issued = NoIssue

C1_Witness ==
    \E r \in DOMAIN req :
        /\ req[r].op = "stack_down" /\ req[r].pc = "done"
        /\ req[r].host.connection_type = "docker"
        /\ req[r].host.docker_url = "tcp://1.2.3.4:2375"
        /\ req[r].out.status = 400

\* C2 (as claimed): every stored stack's host_id names a stored host.
C2_NoOrphanStacks == \A s \in DOMAIN stacks : stacks[s].host_id \in DOMAIN hosts

\* C3 (as claimed): a request that named a host or stack id with no row,
\* or a stack whose host_id has no row, has ended with the 404 HTTPException.
Missing(f) ==
    CASE f.op \in {"get_host", "delete_host", "create_stack"} \cup ContainerOps -> f.host = NoHost
      [] f.op \in ComposeOps -> f.stack = NoStack \/ f.host = NoHost
      [] OTHER -> FALSE

C3_AbsentIdIsNotFound ==
    \A r \in DOMAIN req :
        (req[r].pc = "done" /\ Missing(req[r]))
        => (req[r].out.status = 404 /\ req[r].out.error = "HTTPException")

\* C4: list containers and start container on a "docker" host whose
\* docker_url is None or "" have failed with the 400 "Missing docker_url",
\* with no client built and no call made; registering such a record (with
\* no id written in) succeeded and stored it as submitted.
C4_MissingUrlAtUseTime ==
    \A r \in DOMAIN req :
        /\ (req[r].op \in ContainerOps /\ req[r].host.connection_type = "docker"
            /\ req[r].host.docker_url \in {NULL, ""})
           => /\ req[r].pc = "done"
              /\ req[r].out = MissingUrl
              /\ req[r].clients = 0 /\ req[r].daemonCalls = 0
              /\ req[r].sshCalls = 0 /\ req[r].remoteRuns = 0
        /\ (req[r].op = "add_host" /\ req[r].arg.connection_type = "docker"
            /\ req[r].arg.docker_url \in {NULL, ""} /\ req[r].arg.id = NoId)
           => /\ req[r].out.status = 200
              /\ req[r].out.body[1].id \in DOMAIN hosts
              /\ hosts[req[r].out.body[1].id].docker_url = req[r].arg.docker_url

C4_Witness ==
    \E r \in DOMAIN req :
        /\ req[r].op = "list_containers" /\ req[r].pc = "done"
        /\ req[r].host.connection_type = "docker" /\ req[r].host.docker_url = ""
        /\ req[r].host.id \in DOMAIN hosts
        /\ req[r].out.status = 400

\* t is raw without its leading and trailing blanks.
Trimmed(raw, t) ==
    /\ t # <<>> => (t[1] # " " /\ t[Len(t)] # " ")
    /\ \E i \in 0..Len(raw) :
        /\ i + Len(t) <= Len(raw)
        /\ SubSeq(raw, i + 1, i + Len(t)) = t
        /\ \A k \in (1..i) \cup ((i + Len(t) + 1)..Len(raw)) : raw[k] = " "

\* C5: run_ssh_command ends in one of two ways: it returns the remote
\* command's standard output without its leading and trailing blanks, or,
\* whatever was raised while building the session, connecting,
\* authenticating or by a non-zero exit, it raises the 500 HTTPException
\* "SSH command failed: <text of what was raised>", which is the request's
\* outcome.
C5_UniformSshFailure ==
    \A r \in DOMAIN req :
        /\ (req[r].pc = "done" /\ req[r].sshCalls > 0) => req[r].ssh.status # 0
        /\ req[r].failure # NULL => req[r].ssh.status = 500
        /\ req[r].ssh.status # 0 =>
            IF req[r].ssh.status = 200
            THEN /\ req[r].failure = NULL
                 /\ req[r].ssh.error = "none"
                 /\ Trimmed(req[r].stdout, req[r].ssh.body[1])
            ELSE /\ req[r].ssh.status = 500
                 /\ req[r].ssh.error = "HTTPException"
                 /\ req[r].ssh.detail = <<"SSH command failed: ", req[r].failure>>
                 /\ req[r].pc = "done"
                 /\ req[r].out = req[r].ssh

C5_Witness ==
    \E r \in DOMAIN req :
        /\ req[r].pc = "done" /\ req[r].remoteRuns = 1
        /\ req[r].failure = "exit 1"
        /\ req[r].out = HTTPException(500, <<"SSH command failed: ", "exit 1">>)

\* C6: a command handed to the remote shell ran under sudo as the host's
\* sudo_user when one is set (not None, not ""), and otherwise without
\* elevation as the host's ssh_user, whatever sudo_password is.
C6_SudoIffIdentity ==
    \A r \in DOMAIN req :
        IF req[r].remoteRuns = 0
        THEN req[r].issued = NoIssue
        ELSE /\ req[r].remoteRuns = 1
             /\ req[r].issued.mode \in {"sudo", "run"}
             /\ IF req[r].host.sudo_user \notin {NULL, ""}
                THEN req[r].issued.mode = "sudo" /\ req[r].issued.user = req[r].host.sudo_user
                ELSE req[r].issued.mode = "run" /\ req[r].issued.user = req[r].host.ssh_user

C6_Witness ==
    \E r \in DOMAIN req :
        /\ req[r].pc = "ssh_running"
        /\ req[r].host.sudo_user = NULL /\ req[r].host.sudo_password = "pw"
        /\ req[r].issued.mode = "run" /\ req[r].issued.user = "deploy"

\* C7 (as claimed): the working directory of a Compose verb is the parent
\* directory of compose_file: what precedes its last "/" (or "/" itself
\* for a file in the root directory), and no directory for a bare file name.
HasSlash(p) == \E i \in 1..Len(p) : p[i] = "/"

IsParentDir(p, d) ==
    IF HasSlash(p)
    THEN d = SubSeq(p, 1, LastIndexOf(p, "/") - 1) \/ (LastIndexOf(p, "/") = 1 /\ d = <<"/">>)
    ELSE d \in {<<>>, <<".">>}

C7_WorkingDirIsParent ==
    \A r \in DOMAIN req :
        req[r].guardPassed => IsParentDir(req[r].stack.compose_file, req[r].cmd.cwd)

\* The part of C7 that the code does satisfy: for "/opt/app/docker-compose.yml"
\* every verb runs in "/opt/app", and the directory depends on the stack alone.
C7_ExampleDir ==
    \A r \in DOMAIN req :
        req[r].guardPassed
        => /\ req[r].cmd.cwd = rsplit_head(req[r].stack.compose_file, "/")
           /\ req[r].cmd.file = req[r].stack.compose_file
           /\ req[r].stack.compose_file = ExamplePath => req[r].cmd.cwd = ExampleDir

C10_HandlesPerRequest ==
    \A r \in DOMAIN req :
        /\ req[r].pc \in {"idle", "done"} => (req[r].conn = 0 /\ req[r].client = 0)
        /\ req[r].pc \in {"ssh_ready", "ssh_running"} => (req[r].conn # 0 /\ req[r].client = 0 /\ req[r].sshCalls = 1)
        /\ req[r].pc = "api_ready" => (req[r].client # 0 /\ req[r].conn = 0 /\ req[r].clients = 1)
        /\ \A q \in DOMAIN req \ {r} :
            {req[r].conn, req[r].client} \cap {req[q].conn, req[q].client} \subseteq {0}

C10_Witness ==
    \E r \in DOMAIN req, q \in DOMAIN req :
        /\ r # q
        /\ req[r].pc = "ssh_running" /\ req[q].pc = "ssh_running"
        /\ req[r].conn # 0 /\ req[q].conn # 0 /\ req[r].conn # req[q].conn

\* C11: nothing serializes Compose requests on one stack: a request that
\* is about to hand its command to the remote shell can always do so,
\* whatever the other requests are doing (so of two such requests either
\* may go first, and the second may follow while the first is still
\* running), and a free slot can always start up or down on any stack.
C11_NoSerialization ==
    \A r \in DOMAIN req :
        /\ req[r].pc = "ssh_ready" => ENABLED ssh_open(r, "ok")
        /\ req[r].pc = "idle" =>
            \A sid \in DOMAIN stacks : ENABLED stack_up(r, sid, "ok") /\ ENABLED stack_down(r, sid, "ok")

\* up and down of the same stack both at the remote shell.
C11_Witness ==
    \E r \in DOMAIN req, q \in DOMAIN req :
        /\ r # q
        /\ req[r].op = "stack_up" /\ req[q].op = "stack_down"
        /\ req[r].stack = req[q].stack /\ req[r].stack # NoStack
        /\ req[r].pc = "ssh_running" /\ req[q].pc = "ssh_running"
        /\ req[r].cmd.verb = "up" /\ req[q].cmd.verb = "down"

\* The two orders: up is at the remote shell while down is still to be
\* issued, and the other way round.
C11_UpFirst ==
    \E r \in DOMAIN req, q \in DOMAIN req :
        /\ req[r].op = "stack_up" /\ req[q].op = "stack_down" /\ req[r].stack = req[q].stack
        /\ req[r].pc = "ssh_running" /\ req[q].pc = "ssh_ready"

C11_DownFirst ==
    \E r \in DOMAIN req, q \in DOMAIN req :
        /\ req[r].op = "stack_up" /\ req[q].op = "stack_down" /\ req[r].stack = req[q].stack
        /\ req[r].pc = "ssh_ready" /\ req[q].pc = "ssh_running"

\* C12: the backend is chosen by comparing connection_type with "docker"
\* and nothing else.  For every host of any other kind, "ssh" or not:
\* get_docker_client hands the frame back without a client and without a
\* response; list containers and start container have entered
\* run_ssh_command and built no API client; a Compose verb on a stack of
\* the host has passed the guard and entered run_ssh_command; and the only
\* HTTPException such a request can end with is that of the SSH command,
\* never a 400.
OtherKinds == {"ssh", "podman", "", NULL}

NotDocker(f) == f.host # NoHost /\ f.host.connection_type # "docker"

C12_TwoWayBackendTest ==
    /\ \A h \in DOMAIN hosts, k \in OtherKinds, b \in BuildResults :
           LET f == [Idle EXCEPT !.host = [hosts[h] EXCEPT !.connection_type = k]]
           IN get_docker_client(f, b) = f /\ get_docker_client(f, b).client = 0
    /\ \A r \in DOMAIN req :
           LET f == req[r] IN
           (f.pc # "idle" /\ NotDocker(f)) =>
               /\ f.op \in ContainerOps =>
                      f.sshCalls = 1 /\ f.clients = 0 /\ f.daemonCalls = 0
               /\ (f.op \in ComposeOps /\ f.stack # NoStack) =>
                      f.guardPassed /\ f.sshCalls = 1
               /\ (f.op \in ContainerOps \/ (f.op \in ComposeOps /\ f.stack # NoStack)) =>
                      /\ f.pc \in {"ssh_ready", "ssh_running", "done"}
                      /\ f.out.error = "HTTPException" =>
                             /\ f.out.status = 500 /\ f.ssh.status = 500
                             /\ f.out.detail = f.ssh.detail
                      /\ f.out.status # 400

\* A host whose kind is neither "docker" nor "ssh" has its container
\* listing at the remote shell.
C12_Witness ==
    \E r \in DOMAIN req :
        /\ req[r].host # NoHost
        /\ req[r].host.connection_type \notin {"docker", "ssh"}
        /\ req[r].op = "list_containers"
        /\ req[r].pc = "ssh_running"

\* The same host with a Compose verb past the guard, at the remote shell.
C12_ComposeWitness ==
    \E r \in DOMAIN req :
        /\ req[r].host # NoHost
        /\ req[r].host.connection_type \notin {"docker", "ssh"}
        /\ req[r].op \in ComposeOps /\ req[r].guardPassed
        /\ req[r].pc = "ssh_running"

====
